---- MODULE Spec2Model ----
(***************************************************************************)
(* Model of the Python side of the MATLAB/Python atmospheric transmission  *)
(* comparison: the single-gas optical depth accumulator                     *)
(* (python_gas_analysis.py), the component combiner                        *)
(* (compare_matlab_python_transmission.py) with the result file it prints, *)
(* its component blocks run in any order, the analysis of two result files *)
(* (analyze_comparison.py) and the search for absorption bands             *)
(* (python_water_analysis.py).                                             *)
(*                                                                         *)
(* Numbers.  Optical depths are integers in fixed units: a coefficient     *)
(* table holds small naturals, an abundance is the value of the source     *)
(* formula at the modelled pressure / temperature / CO2 level expressed in *)
(* a per-species unit (see Abundance), an airmass is in units of 0.1.      *)
(* IEEE NaN (log(0) in the NH3 formula) is tracked by the flag taug_nan.   *)
(* Transmittances of the combiner are exact rationals [n, d].              *)
(* A line of a result file is the sequence of its characters; a number     *)
(* read from a file is an integer in units of 1e-6, or NaN.                *)
(***************************************************************************)
EXTENDS Integers, Sequences, FiniteSets

\* ------------------------------------------------------------------ bounds
\* number of points of a UMG wavelength grid (len(self.wvl_arr))
NWvl == 2
\* number of points of the combiner's target grid (101 in the script)
NPoints == 3
\* a transmittance sample is k/Scale, k \in 0..Scale
Scale == 2
\* largest number of points of the spectrum searched for absorption bands
BandPoints == 4

VARIABLES
    \* SingleGasUMG object and one run of _optical_depth
    target_gas, with_trace_gases, pp0, tair, co2_ppm, sza, abs_attrs,
    pc, taug_l, taug_nan, calls, error, trans,
    \* one call of np.interp
    xp, fp, ipc, res,
    \* the comparison script
    cpc, native, interp, trans_total, cerror, stdout,
    \* the analysis of the two result files
    py_file, ml_file, apc, python_data, matlab_data, printed_range, differences,
    max_diff_idx, max_diff_wvl, sig_report, sig_table, conclusion, aerror,
    \* the components of the comparison script computed in any order
    lib, slots, reordered,
    \* one call of find_water_absorption_bands
    band_wavelengths, transmission, bpc, abs_wavelengths, abs_transmissions,
    band_breaks, band_start, band_count, loop_i, bands

umgVars == <<target_gas, with_trace_gases, pp0, tair, co2_ppm, sza, abs_attrs,
             pc, taug_l, taug_nan, calls, error, trans>>
interpVars == <<xp, fp, ipc, res>>
combVars == <<cpc, native, interp, trans_total, cerror, stdout>>
anaVars == <<py_file, ml_file, apc, python_data, matlab_data, printed_range,
             differences, max_diff_idx, max_diff_wvl, sig_report, sig_table,
             conclusion, aerror>>
parVars == <<lib, slots, reordered>>
bandVars == <<band_wavelengths, transmission, bpc, abs_wavelengths, abs_transmissions,
              band_breaks, band_start, band_count, loop_i, bands>>
restVars == <<anaVars, parVars, bandVars>>
vars == <<umgVars, interpVars, combVars, restVars>>

\* ------------------------------------------------------- the eight species
\* the order of the blocks of _optical_depth
Species == <<"O2", "CH4", "CO", "N2O", "CO2", "N2", "O4", "NH3">>

SpeciesSet == {Species[k] : k \in 1..Len(Species)}

SpeciesIndex(s) == CHOOSE k \in 1..Len(Species) : Species[k] = s

\* values target_gas takes: 'ALL', the eight names, and a name no block tests
TargetGases == SpeciesSet \cup {"ALL", "XYZ"}

Constituents == {"o2", "ch4", "co", "n2o", "co2", "n2", "o4", "nh3"}

\* the argument of getabs in the block of species s
AbsId(s) ==
    CASE s = "O2" -> "o2"
      [] s = "CH4" -> "ch4"
      [] s = "CO" -> "co"
      [] s = "N2O" -> "n2o"
      [] s = "CO2" -> "co2"
      [] s = "N2" -> "n2"
      [] s = "O4" -> "o4"
      [] s = "NH3" -> "nh3"

\* every block asks the airmass of the constituent of the preceding block
AmId_shifted(s) ==
    IF s = "O2" THEN "o2" ELSE AbsId(Species[SpeciesIndex(s) - 1])

\* the argument of getam in the block of species s (O4: getam('o2'))
AmId(s) ==
    CASE s = "O2" -> "o2"
      [] s = "CH4" -> "ch4"
      [] s = "CO" -> "co"
      [] s = "N2O" -> "n2o"
      [] s = "CO2" -> "co2"
      [] s = "N2" -> "n2"
      [] s = "O4" -> "o2"
      [] s = "NH3" -> "nh3"

ConstituentIndex(c) == SpeciesIndex(CHOOSE s \in SpeciesSet : AbsId(s) = c)

\* --------------------------------------------------------- input domains
\* pp0 in halves: p_ = 0, 506.625 and 1013.25 mbar
PressureLevels == {0, 1, 2}
\* air temperature in degrees Celsius
TairLevels == {0, 15}
\* the two CO2 mixing ratios of the scripts
Co2Levels == {395, 415}
\* zenith level: 0 is the zenith, 1 a slanted path
SzaLevels == {0, 1}

\* coefficient tables of the base class: table family k, constituent c
CoeffTable(k, c) ==
    [w \in 1..NWvl |-> (ConstituentIndex(c) * k + w) % 3]

AllTables(k) == [c \in Constituents |-> CoeffTable(k, c)]

Restrict(f, S) == [c \in S |-> f[c]]

\* the <c>abs attributes the object holds: all, or all but one
AbsAttrChoices ==
    {Restrict(AllTables(k), Constituents \ M) :
        k \in {1, 2}, M \in {{}} \cup {{c} : c \in Constituents}}

\* ---------------------------------------------------- abundance formulas
\* tt0 = (tair + 273.15) / 273.15, as tt0 ** .344 in thousandths:
\* 1.000 at 0 C, 1.019 at 15 C
TT0Pow(t) == IF t = 0 THEN 1000 ELSE 1019

\* every abundance is divided by tt0 ** .344
Abundance_all_tt0(s, p, t, c) ==
    ((CASE s = "O2" -> 839 * p
        [] s = "CH4" -> (IF p = 0 THEN 0 ELSE IF p = 1 THEN 637 ELSE 1325)
        [] s = "CO" -> (IF p = 0 THEN 0 ELSE IF p = 1 THEN 331 ELSE 886)
        [] s = "N2O" -> (IF p = 0 THEN 0 ELSE IF p = 1 THEN 1171 ELSE 2473)
        [] s = "CO2" -> (4013 * c * p) \div 1000
        [] s = "N2" -> (IF p = 0 THEN 0 ELSE IF p = 1 THEN 1071 ELSE 3827)
        [] s = "O4" -> (IF p = 0 THEN 0 ELSE IF p = 1 THEN 377 ELSE 1312)
        [] s = "NH3" -> (IF p = 0 THEN 0 ELSE IF p = 1 THEN 173 ELSE 1751)) * 1000)
        \div TT0Pow(t)

\* The abundance of species s at pp0 = p/2, temperature t, CO2 ratio c, as the
\* source formula evaluates it, rounded, in the unit given per species:
\*   O2   1.67766e5 * pp0                                   unit 1e2
\*   CH4  1.3255 * pp0**1.0574                              unit 1e-3
\*   CO   .29625 * pp0**2.448 * exp(.54669 - 2.4114*pp0 + .65756*pp0**2)
\*                                                          unit 1e-4
\*   N2O  .24730 * pp0**1.0791                              unit 1e-4
\*   CO2  0.802685 * co2_ppm * pp0                          unit 1e-1
\*   N2   3.8269 * pp0**1.8374                              unit 1e-3
\*   O4   1.8171e4 * NLOSCHMIDT**2 * pp0**1.7984 / tt0**.344  unit 1e40
\*   NH3  exp(-8.6499 + 2.1947*l - 2.5936*l**2 - 1.819*l**3 - 0.65854*l**4),
\*        l = log(pp0)                                      unit 1e-7
\* (the NH3 value at pp0 = 0 is NaN: see AbundanceIsNaN)
Abundance(s, p, t, c) ==
    CASE s = "O2" -> 839 * p
      [] s = "CH4" -> (IF p = 0 THEN 0 ELSE IF p = 1 THEN 637 ELSE 1325)
      [] s = "CO" -> (IF p = 0 THEN 0 ELSE IF p = 1 THEN 331 ELSE 886)
      [] s = "N2O" -> (IF p = 0 THEN 0 ELSE IF p = 1 THEN 1171 ELSE 2473)
      [] s = "CO2" -> (4013 * c * p) \div 1000
      [] s = "N2" -> (IF p = 0 THEN 0 ELSE IF p = 1 THEN 1071 ELSE 3827)
      [] s = "O4" -> ((IF p = 0 THEN 0 ELSE IF p = 1 THEN 377 ELSE 1312) * 1000) \div TT0Pow(t)
      [] s = "NH3" -> (IF p = 0 THEN 0 ELSE IF p = 1 THEN 173 ELSE 1751)

\* np.log(0) is -inf, and -inf + inf in the NH3 polynomial is NaN
AbundanceIsNaN(s, p) == s = "NH3" /\ p = 0

\* ------------------------------------------------------ getam and getabs
\* Airmass_from_SMARTS(sza, constituent) of the base class, in units of 0.1:
\* 1.0 at the zenith, larger and distinct per constituent on a slanted path
Airmass_from_SMARTS(z, constituent) == 10 + z * ConstituentIndex(constituent)

getam(constituent) == Airmass_from_SMARTS(sza, constituent)

\* a missing table reads as a table of zeros
getabs_default_zero(constituent) ==
    IF constituent \in DOMAIN abs_attrs
    THEN [ok |-> TRUE, val |-> abs_attrs[constituent]]
    ELSE [ok |-> TRUE, val |-> [w \in 1..NWvl |-> 0]]

\* getattr(self, f'{constituent}abs'): the table, or AttributeError (ok = FALSE)
getabs(constituent) ==
    IF constituent \in DOMAIN abs_attrs
    THEN [ok |-> TRUE, val |-> abs_attrs[constituent]]
    ELSE [ok |-> FALSE, val |-> <<>>]

\* ------------------------------------------------- the blocks of the sum
\* the N2 block is entered by a prefix match of the target name
Selected_prefix(s, tg) == tg = s \/ tg = "ALL" \/ (s = "N2" /\ tg = "N2O")

\* self.target_gas == '<s>' or self.target_gas == 'ALL'
Selected(s, tg) == tg = s \/ tg = "ALL"

\* the trace-gas flag is not tested
Guard_no_flag(s, tg, wtg) == Selected(s, tg)

\* the condition under which the block of species s runs: NH3 is nested
\* under if self.with_trace_gases
Guard(s, tg, wtg) == IF s = "NH3" THEN wtg /\ Selected(s, tg) ELSE Selected(s, tg)

\* getabs(..) * abundance * getam(..) of the block of species s
Term(s) ==
    [w \in 1..NWvl |->
        getabs(AbsId(s)).val[w] * Abundance(s, pp0, tair, co2_ppm) * getam(AmId(s))]

Zeros == [w \in 1..NWvl |-> 0]

\* the term is subtracted from the running sum
AddArr_subtract(a, b) == [w \in 1..NWvl |-> a[w] - b[w]]

AddArr(a, b) == [w \in 1..NWvl |-> a[w] + b[w]]

NextPc(s) == IF s = "NH3" THEN "return" ELSE Species[SpeciesIndex(s) + 1]

umgInputs == <<target_gas, with_trace_gases, pp0, tair, co2_ppm, sza, abs_attrs>>

\* lines 37-38: tt0 and the zero array
Enter ==
    /\ pc = "enter"
    /\ pc' = "O2"
    /\ taug_l' = Zeros
    /\ taug_nan' = FALSE
    /\ UNCHANGED <<umgInputs, calls, error, trans, interpVars, combVars, restVars>>

\* one if-block of _optical_depth
Block(s) ==
    /\ pc = s
    /\ IF Guard(s, target_gas, with_trace_gases)
       THEN IF getabs(AbsId(s)).ok
            THEN /\ taug_l' = AddArr(taug_l, Term(s))
                 /\ taug_nan' = (taug_nan \/ AbundanceIsNaN(s, pp0))
                 /\ calls' = Append(calls, [species |-> s, abs |-> AbsId(s),
                                            am |-> AmId(s), term |-> Term(s)])
                 /\ pc' = NextPc(s)
                 /\ UNCHANGED error
            ELSE /\ pc' = "raised"
                 /\ error' = "AttributeError"
                 /\ UNCHANGED <<taug_l, taug_nan, calls>>
       ELSE /\ pc' = NextPc(s)
            /\ UNCHANGED <<taug_l, taug_nan, calls, error>>
    /\ UNCHANGED <<umgInputs, trans, interpVars, combVars, restVars>>

BlockO2 == Block("O2")
BlockCH4 == Block("CH4")
BlockCO == Block("CO")
BlockN2O == Block("N2O")
BlockCO2 == Block("CO2")
BlockN2 == Block("N2")
BlockO4 == Block("O4")
BlockNH3 == Block("NH3")

\* return taug_l
Return ==
    /\ pc = "return"
    /\ pc' = "returned"
    /\ UNCHANGED <<umgInputs, taug_l, taug_nan, calls, error, trans, interpVars, combVars, restVars>>

\* exp(-tau) of the Beer-Lambert law, by the interval it falls in: exactly 1
\* at tau = 0, inside (0,1) for tau > 0, above 1 for tau < 0, NaN for NaN
BeerLambert(tau, isnan) ==
    IF isnan THEN "nan"
    ELSE IF tau = 0 THEN "one"
    ELSE IF tau > 0 THEN "below_one"
    ELSE "above_one"

\* trans = umg.make_transmission(): the transmittance of the optical depth
MakeTransmission ==
    /\ pc = "returned"
    /\ pc' = "transmitted"
    /\ trans' = [w \in 1..NWvl |-> BeerLambert(taug_l[w], taug_nan)]
    /\ UNCHANGED <<umgInputs, taug_l, taug_nan, calls, error, interpVars, combVars, restVars>>

\* the whole of _optical_depth for target tg and flag wtg, on the tables and
\* the state of the object (all selected tables present)
RECURSIVE Accumulate(_, _, _)
Accumulate(k, tg, wtg) ==
    IF k = 0 THEN Zeros
    ELSE IF Guard(Species[k], tg, wtg)
         THEN AddArr(Accumulate(k - 1, tg, wtg), Term(Species[k]))
         ELSE Accumulate(k - 1, tg, wtg)

optical_depth(tg, wtg) == Accumulate(Len(Species), tg, wtg)

\* no SingleGasUMG object exists
UmgIdle ==
    /\ target_gas = "ALL"
    /\ with_trace_gases = TRUE
    /\ pp0 = 2
    /\ tair = 15
    /\ co2_ppm = 395
    /\ sza = 0
    /\ abs_attrs = <<>>
    /\ pc = "idle"
    /\ taug_l = <<>>
    /\ taug_nan = FALSE
    /\ calls = <<>>
    /\ error = "none"
    /\ trans = <<>>

InterpIdle == xp = <<>> /\ fp = <<>> /\ ipc = "idle" /\ res = <<>>

CombIdle ==
    /\ cpc = "idle"
    /\ native = <<>>
    /\ interp = <<>>
    /\ trans_total = <<>>
    /\ cerror = "none"
    /\ stdout = <<>>

AnaIdle ==
    /\ py_file = <<>>
    /\ ml_file = <<>>
    /\ apc = "idle"
    /\ python_data = <<>>
    /\ matlab_data = <<>>
    /\ printed_range = <<>>
    /\ differences = <<>>
    /\ max_diff_idx = 0
    /\ max_diff_wvl = 0
    /\ sig_report = "pending"
    /\ sig_table = <<>>
    /\ conclusion = "none"
    /\ aerror = "none"

ParIdle == lib = <<>> /\ slots = <<>> /\ reordered = FALSE

BandIdle ==
    /\ band_wavelengths = <<>>
    /\ transmission = <<>>
    /\ bpc = "idle"
    /\ abs_wavelengths = <<>>
    /\ abs_transmissions = <<>>
    /\ band_breaks = <<>>
    /\ band_start = 0
    /\ band_count = 0
    /\ loop_i = 0
    /\ bands = <<>>

RestIdle == AnaIdle /\ ParIdle /\ BandIdle

\* SingleGasUMG(z_, tair, p_, co2_ppm, with_trace_gases, target_gas) constructed
Init ==
    /\ target_gas \in TargetGases
    /\ with_trace_gases \in BOOLEAN
    /\ pp0 \in PressureLevels
    /\ tair \in TairLevels
    /\ co2_ppm \in Co2Levels
    /\ sza \in SzaLevels
    /\ abs_attrs \in AbsAttrChoices
    /\ pc = "enter"
    /\ taug_l = <<>>
    /\ taug_nan = FALSE
    /\ calls = <<>>
    /\ error = "none"
    /\ trans = <<>>
    /\ InterpIdle
    /\ CombIdle
    /\ RestIdle

Next ==
    \/ Enter
    \/ BlockO2
    \/ BlockCH4
    \/ BlockCO
    \/ BlockN2O
    \/ BlockCO2
    \/ BlockN2
    \/ BlockO4
    \/ BlockNH3
    \/ Return
    \/ MakeTransmission

Spec == Init /\ [][Next]_vars

\* ============================================================ np.interp
\* exact rationals n/d, d > 0
Rat(n, d) == [n |-> n, d |-> d]

RatLe(a, b) == a.n * b.d <= b.n * a.d

RatEq(a, b) == a.n * b.d = b.n * a.d

RatMul(a, b) == Rat(a.n * b.n, a.d * b.d)

\* np.linspace(300, 1100, 101) in units of its step, counted from one step
\* below 300 nm
wavelengths == [i \in 1..NPoints |-> i]

\* outside the native range the first or last segment is continued
np_interp_extrapolate(x, axp, afp) ==
    LET n == Len(axp)
        seg(j) == Rat(afp[j] * (axp[j + 1] - axp[j])
                        + (afp[j + 1] - afp[j]) * (x - axp[j]),
                      Scale * (axp[j + 1] - axp[j]))
    IN  IF n = 1 THEN Rat(afp[1], Scale)
        ELSE IF x > axp[n] THEN seg(n - 1)
        ELSE IF x < axp[1] THEN seg(1)
        ELSE LET j == CHOOSE k \in 1..n : axp[k] <= x /\ (k = n \/ x < axp[k + 1])
             IN  IF j = n THEN Rat(afp[n], Scale)
                 ELSE IF axp[j] = x THEN Rat(afp[j], Scale)
                 ELSE seg(j)

\* at a native sample point the sample to its right is returned
np_interp_right_sample(x, axp, afp) ==
    LET n == Len(axp)
    IN  IF n = 1 THEN Rat(afp[1], Scale)
        ELSE IF x > axp[n] THEN Rat(afp[n], Scale)
        ELSE IF x < axp[1] THEN Rat(afp[1], Scale)
        ELSE LET j == CHOOSE k \in 1..n : axp[k] <= x /\ (k = n \/ x < axp[k + 1])
             IN  IF j = n THEN Rat(afp[n], Scale)
                 ELSE IF axp[j] = x THEN Rat(afp[j + 1], Scale)
                 ELSE Rat(afp[j] * (axp[j + 1] - axp[j])
                            + (afp[j + 1] - afp[j]) * (x - axp[j]),
                          Scale * (axp[j + 1] - axp[j]))

\* np.interp(x, xp, fp) at one point x, xp increasing and not empty, fp[j]
\* standing for fp[j]/Scale: fp[-1] right of the range, fp[0] left of it, the
\* sample itself at a sample point, else fp[j] + slope * (x - xp[j]) on the
\* segment xp[j] <= x < xp[j+1]
np_interp(x, axp, afp) ==
    LET n == Len(axp)
    IN  IF n = 1 THEN Rat(afp[1], Scale)
        ELSE IF x > axp[n] THEN Rat(afp[n], Scale)
        ELSE IF x < axp[1] THEN Rat(afp[1], Scale)
        ELSE LET j == CHOOSE k \in 1..n : axp[k] <= x /\ (k = n \/ x < axp[k + 1])
             IN  IF j = n THEN Rat(afp[n], Scale)
                 ELSE IF axp[j] = x THEN Rat(afp[j], Scale)
                 ELSE Rat(afp[j] * (axp[j + 1] - axp[j])
                            + (afp[j + 1] - afp[j]) * (x - axp[j]),
                          Scale * (axp[j + 1] - axp[j]))

\* np.interp(wavelengths, xp, fp)
interp_on_grid(axp, afp) == [i \in 1..NPoints |-> np_interp(wavelengths[i], axp, afp)]

\* the increasing sequence of the elements of a set of numbers
SortedSeq(S) ==
    CHOOSE f \in [1..Cardinality(S) -> S] :
        \A a, b \in 1..Cardinality(S) : a < b => f[a] < f[b]

\* native grids of a component: increasing, on or around the target range
NativeGrids ==
    {SortedSeq(S) : S \in {T \in SUBSET (0..(NPoints + 1)) : Cardinality(T) <= NPoints}}

\* native spectra: a grid and a transmittance k/Scale in [0,1] per grid point
NativeSpectra ==
    UNION {{[wvl_arr |-> g, trans |-> v] : v \in [1..Len(g) -> 0..Scale]} :
           g \in NativeGrids}

\* a component object and its spectrum exist
InitInterp ==
    /\ \E sp \in NativeSpectra : xp = sp.wvl_arr /\ fp = sp.trans
    /\ ipc = "call"
    /\ res = <<>>
    /\ UmgIdle
    /\ CombIdle
    /\ RestIdle

\* trans_interp = np.interp(wavelengths, c.wvl_arr, trans); an empty xp raises
\* ValueError
CallInterp ==
    /\ ipc = "call"
    /\ IF Len(xp) = 0
       THEN ipc' = "raised" /\ res' = res
       ELSE ipc' = "done" /\ res' = interp_on_grid(xp, fp)
    /\ UNCHANGED <<xp, fp, umgVars, combVars, restVars>>

NextInterp == CallInterp

SpecInterp == InitInterp /\ [][NextInterp]_vars

\* ================================================== text of the result files
\* A line of text is the sequence of its characters, without the newline.
DigitChars == <<"0", "1", "2", "3", "4", "5", "6", "7", "8", "9">>

DigitChar(k) == DigitChars[k + 1]

IsDigit(ch) == \E k \in 1..10 : DigitChars[k] = ch

DigitVal(ch) == (CHOOSE k \in 1..10 : DigitChars[k] = ch) - 1

RECURSIVE Pow10(_)
Pow10(k) == IF k = 0 THEN 1 ELSE 10 * Pow10(k - 1)

RECURSIVE NatToChars(_)
NatToChars(n) ==
    IF n < 10 THEN <<DigitChar(n)>>
    ELSE NatToChars(n \div 10) \o <<DigitChar(n % 10)>>

\* the k digits of f, zero padded on the left
RECURSIVE FracChars(_, _)
FracChars(f, k) ==
    IF k = 0 THEN <<>> ELSE FracChars(f \div 10, k - 1) \o <<DigitChar(f % 10)>>

\* floor(rem * 10^k / d) for 0 <= rem < d, digit by digit, with the remainder
RECURSIVE LongDiv(_, _, _, _)
LongDiv(rem, d, k, acc) ==
    IF k = 0 THEN [q |-> acc, rem |-> rem]
    ELSE LongDiv((rem * 10) % d, d, k - 1, acc * 10 + (rem * 10) \div d)

\* the rational r >= 0 in units of 10^-k, rounded to the nearest unit
RoundRat(r, k) ==
    LET whole == r.n \div r.d
        frac == LongDiv(r.n % r.d, r.d, k, 0)
    IN  whole * Pow10(k) + frac.q + (IF 2 * frac.rem >= r.d THEN 1 ELSE 0)

\* f"{x:.kf}" of a value given in units of 10^-k
FormatFixed(v, k) ==
    IF k = 0 THEN NatToChars(v)
    ELSE NatToChars(v \div Pow10(k)) \o <<".">> \o FracChars(v % Pow10(k), k)

NanChars == <<"n", "a", "n">>

\* f"{x:.kf}" of a rational x >= 0; NaN prints as nan
FormatRat(r, k) == IF r.d = 0 THEN NanChars ELSE FormatFixed(RoundRat(r, k), k)

RECURSIVE Gcd(_, _)
Gcd(a, b) == IF b = 0 THEN a ELSE Gcd(b, a % b)

RatAdd(a, b) ==
    LET g == Gcd(a.d, b.d)
    IN  Rat(a.n * (b.d \div g) + b.n * (a.d \div g), (a.d \div g) * b.d)

\* wavelengths[i] of np.linspace(300, 1100, NPoints) in nm, as a rational
WavelengthNm(i) == Rat(300 * (NPoints - 1) + (i - 1) * 800, NPoints - 1)

\* the separator ", " of the row format
CommaSpace ==
    <<",", " ">>

\* line 73: the column header (after an empty line)
HeaderLine ==
    <<"#", " ", "W", "a", "v", "e", "l", "e", "n", "g", "t", "h", "(", "n",
      "m", ")", ",", " ", "T", "r", "a", "n", "s", "_", "T", "o", "t", "a",
      "l", ",", " ", "T", "r", "a", "n", "s", "_", "R", "a", "y", ",", " ",
      "T", "r", "a", "n", "s", "_", "O", "z", ",", " ", "T", "r", "a", "n",
      "s", "_", "W", "a", "t", "e", "r", ",", " ", "T", "r", "a", "n", "s",
      "_", "A", "e", "r", ",", " ", "T", "r", "a", "n", "s", "_", "U", "M",
      "G">>

\* lines 31-42: what the script prints before the components
Preamble ==
    << <<"=", "=", "=", " ", "P", "Y", "T", "H", "O", "N", " ", "A", "T",
         "M", "O", "S", "P", "H", "E", "R", "I", "C", " ", "T", "R", "A",
         "N", "S", "M", "I", "S", "S", "I", "O", "N", " ", "=", "=", "=">>,
       <<>>,
       <<"T", "e", "s", "t", " ", "c", "o", "n", "d", "i", "t", "i", "o",
         "n", "s", ":">>,
       <<" ", " ", "Z", "e", "n", "i", "t", "h", " ", "a", "n", "g", "l",
         "e", ":", " ", "0", ".", "0", " ", "d", "e", "g">>,
       <<" ", " ", "P", "r", "e", "s", "s", "u", "r", "e", ":", " ", "1",
         "0", "1", "3", ".", "2", "5", " ", "m", "b", "a", "r">>,
       <<" ", " ", "T", "e", "m", "p", "e", "r", "a", "t", "u", "r", "e",
         ":", " ", "1", "5", ".", "0", " ", "C">>,
       <<" ", " ", "O", "z", "o", "n", "e", ":", " ", "3", "0", "0", " ",
         "D", "U">>,
       <<" ", " ", "W", "a", "t", "e", "r", " ", "v", "a", "p", "o", "r",
         ":", " ", "1", ".", "0", " ", "c", "m">>,
       <<" ", " ", "A", "e", "r", "o", "s", "o", "l", " ", "A", "O", "D",
         ":", " ", "0", ".", "0", "8", "4">>,
       <<" ", " ", "C", "O", "2", ":", " ", "3", "9", "5", " ", "p", "p",
         "m">>,
       <<>>,
       <<"C", "a", "l", "c", "u", "l", "a", "t", "i", "n", "g", " ", "c",
         "o", "m", "p", "o", "n", "e", "n", "t", "s", ".", ".", ".">> >>

\* line 84
SummaryTitle ==
    <<"=", "=", "=", " ", "S", "U", "M", "M", "A", "R", "Y", " ", "=", "=",
      "=">>

\* line 85
MeanLabel ==
    <<"M", "e", "a", "n", " ", "t", "o", "t", "a", "l", " ", "t", "r", "a",
      "n", "s", "m", "i", "s", "s", "i", "o", "n", ":", " ">>

\* line 86
MinLabel ==
    <<"M", "i", "n", " ", "t", "o", "t", "a", "l", " ", "t", "r", "a", "n",
      "s", "m", "i", "s", "s", "i", "o", "n", ":", " ">>

\* line 87
MaxLabel ==
    <<"M", "a", "x", " ", "t", "o", "t", "a", "l", " ", "t", "r", "a", "n",
      "s", "m", "i", "s", "s", "i", "o", "n", ":", " ">>

\* line 94
UvLabel ==
    <<"M", "e", "a", "n", " ", "U", "V", " ", "t", "r", "a", "n", "s", "m",
      "i", "s", "s", "i", "o", "n", " ", "(", "3", "0", "0", "-", "4", "0",
      "0", " ", "n", "m", ")", ":", " ">>

\* line 95
VisLabel ==
    <<"M", "e", "a", "n", " ", "v", "i", "s", "i", "b", "l", "e", " ", "t",
      "r", "a", "n", "s", "m", "i", "s", "s", "i", "o", "n", " ", "(", "4",
      "0", "0", "-", "7", "0", "0", " ", "n", "m", ")", ":", " ">>

\* line 96
NirLabel ==
    <<"M", "e", "a", "n", " ", "N", "I", "R", " ", "t", "r", "a", "n", "s",
      "m", "i", "s", "s", "i", "o", "n", " ", "(", "7", "0", "0", "-", "1",
      "1", "0", "0", " ", "n", "m", ")", ":", " ">>

\* ======================================================= the comparison script
\* the components in the order the script computes them
Components == <<"ray", "oz", "water", "aer", "umg">>

\* spectra a component object may hand to the script
ComponentSpectra ==
    { [wvl_arr |-> wavelengths, trans |-> [i \in 1..NPoints |-> Scale]],
      [wvl_arr |-> wavelengths, trans |-> [i \in 1..NPoints |-> i % (Scale + 1)]],
      [wvl_arr |-> <<0, NPoints + 1>>, trans |-> <<0, Scale>>],
      [wvl_arr |-> <<2, 3>>, trans |-> <<Scale, 1>>],
      [wvl_arr |-> <<2>>, trans |-> <<1>>],
      [wvl_arr |-> <<>>, trans |-> <<>>] }

\* the script starts
InitCombine ==
    /\ cpc = "ray"
    /\ native = <<>>
    /\ interp = <<>>
    /\ trans_total = <<>>
    /\ cerror = "none"
    /\ stdout = Preamble
    /\ UmgIdle
    /\ InterpIdle
    /\ RestIdle

NextComponent(c) ==
    CASE c = "ray" -> "oz"
      [] c = "oz" -> "water"
      [] c = "water" -> "aer"
      [] c = "aer" -> "umg"
      [] c = "umg" -> "total"

\* c = Class(...); trans = c.make_transmission();
\* trans_interp = np.interp(wavelengths, c.wvl_arr, trans)
Component(c) ==
    /\ cpc = c
    /\ \E sp \in ComponentSpectra :
          /\ native' = Append(native, sp)
          /\ IF Len(sp.wvl_arr) = 0
             THEN /\ cpc' = "raised"
                  /\ cerror' = "ValueError"
                  /\ UNCHANGED interp
             ELSE /\ cpc' = NextComponent(c)
                  /\ interp' = Append(interp, interp_on_grid(sp.wvl_arr, sp.trans))
                  /\ UNCHANGED cerror
    /\ UNCHANGED <<trans_total, stdout, umgVars, interpVars, restVars>>

Rayleigh == Component("ray")
Ozone == Component("oz")
Water == Component("water")
Aerosol == Component("aer")
UMG == Component("umg")

\* the UMG factor is left out of the product
ProductAt_without_umg(i) ==
    RatMul(RatMul(RatMul(interp[1][i], interp[2][i]), interp[3][i]), interp[4][i])

\* trans_ray_interp * trans_oz_interp * trans_water_interp * trans_aer_interp
\* * trans_umg_interp at grid point i
ProductAt(i) ==
    RatMul(RatMul(RatMul(RatMul(interp[1][i], interp[2][i]), interp[3][i]),
                  interp[4][i]), interp[5][i])

\* line 70: trans_total
Total ==
    /\ cpc = "total"
    /\ trans_total' = [i \in 1..NPoints |-> ProductAt(i)]
    /\ cpc' = "done"
    /\ UNCHANGED <<native, interp, cerror, stdout, umgVars, interpVars, restVars>>

\* lines 74-77: the row of grid point i; comps are the five interpolated
\* components in the order ray, oz, water, aer, umg
ResultRow(i, total, comps) ==
    FormatRat(WavelengthNm(i), 1) \o CommaSpace
        \o FormatRat(total[i], 6) \o CommaSpace
        \o FormatRat(comps[1][i], 6) \o CommaSpace
        \o FormatRat(comps[2][i], 6) \o CommaSpace
        \o FormatRat(comps[3][i], 6) \o CommaSpace
        \o FormatRat(comps[4][i], 6) \o CommaSpace
        \o FormatRat(comps[5][i], 6)

\* lines 73-77: an empty line, the header, one row per grid point
ResultLines(total, comps) ==
    <<<<>>, HeaderLine>> \o [i \in 1..NPoints |-> ResultRow(i, total, comps)]

RECURSIVE RatSum(_, _)
RatSum(arr, S) ==
    IF S = {} THEN Rat(0, 1)
    ELSE LET i == CHOOSE j \in S : TRUE
         IN  RatAdd(arr[i], RatSum(arr, S \ {i}))

\* np.mean of the entries at the indices S; the mean of no entry is NaN
MeanOver(arr, S) ==
    IF S = {} THEN Rat(0, 0)
    ELSE LET s == RatSum(arr, S) IN Rat(s.n, s.d * Cardinality(S))

\* an / ad <= bn / bd for naturals with ad, bd > 0, by comparing the integer
\* parts and then the reciprocals of the fractional parts (no large product)
RECURSIVE QuotLe(_, _, _, _)
QuotLe(an, ad, bn, bd) ==
    IF an \div ad # bn \div bd THEN an \div ad < bn \div bd
    ELSE IF an % ad = 0 THEN TRUE
    ELSE IF bn % bd = 0 THEN FALSE
    ELSE QuotLe(bd, bn % bd, ad, an % ad)

\* np.min
MinOf(arr) ==
    arr[CHOOSE i \in DOMAIN arr :
            \A j \in DOMAIN arr : QuotLe(arr[i].n, arr[i].d, arr[j].n, arr[j].d)]

\* np.max
MaxOf(arr) ==
    arr[CHOOSE i \in DOMAIN arr :
            \A j \in DOMAIN arr : QuotLe(arr[j].n, arr[j].d, arr[i].n, arr[i].d)]

\* (wavelengths >= lo) & (wavelengths <= hi)
BandMask(lo, hi) ==
    {i \in 1..NPoints : RatLe(Rat(lo, 1), WavelengthNm(i)) /\ RatLe(WavelengthNm(i), Rat(hi, 1))}

\* lines 84-96
SummaryLines(total) ==
    << <<>>,
       SummaryTitle,
       MeanLabel \o FormatRat(MeanOver(total, 1..NPoints), 4),
       MinLabel \o FormatRat(MinOf(total), 4),
       MaxLabel \o FormatRat(MaxOf(total), 4),
       <<>>,
       UvLabel \o FormatRat(MeanOver(total, BandMask(300, 400)), 4),
       VisLabel \o FormatRat(MeanOver(total, BandMask(400, 700)), 4),
       NirLabel \o FormatRat(MeanOver(total, BandMask(700, 1100)), 4) >>

\* lines 72-77: the result table goes to standard output
PrintResults ==
    /\ cpc = "done"
    /\ stdout' = stdout \o ResultLines(trans_total, interp)
    /\ cpc' = "printed"
    /\ UNCHANGED <<native, interp, trans_total, cerror, umgVars, interpVars, restVars>>

\* lines 83-96: the summary statistics
PrintSummary ==
    /\ cpc = "printed"
    /\ stdout' = stdout \o SummaryLines(trans_total)
    /\ cpc' = "summarised"
    /\ UNCHANGED <<native, interp, trans_total, cerror, umgVars, interpVars, restVars>>

NextCombine ==
    \/ Rayleigh
    \/ Ozone
    \/ Water
    \/ Aerosol
    \/ UMG
    \/ Total
    \/ PrintResults
    \/ PrintSummary

SpecCombine == InitCombine /\ [][NextCombine]_vars

\* ============================== the components computed in any order
ComponentSet == {Components[k] : k \in 1..Len(Components)}

\* spectra with at least two points and two different values
ParSpectra ==
    {sp \in ComponentSpectra :
        Len(sp.wvl_arr) >= 2 /\ \E i, j \in 1..Len(sp.trans) : sp.trans[i] # sp.trans[j]}

\* the components the script computes before component c
Earlier(c) ==
    {Components[k] : k \in {h \in 1..Len(Components) : \A j \in 1..h : Components[j] # c}}

\* a block takes the object of the Rayleigh block once that exists
ComponentInput_shared(c) ==
    IF slots["ray"].stage # "new" THEN lib["ray"] ELSE lib[c]

\* what the block of component c reads: its own object, built from the
\* constants of lines 19-26, and the spectrum that object returns
ComponentInput(c) == lib[c]

\* lib[c] is what Class_c(constants).make_transmission() and .wvl_arr give in
\* this run; every block is still to run
InitAnyOrder ==
    /\ lib \in [ComponentSet -> ParSpectra]
    /\ slots = [c \in ComponentSet |-> [stage |-> "new"]]
    /\ reordered = FALSE
    /\ cpc = "components"
    /\ native = <<>>
    /\ interp = <<>>
    /\ trans_total = <<>>
    /\ cerror = "none"
    /\ stdout = Preamble
    /\ UmgIdle
    /\ InterpIdle
    /\ AnaIdle
    /\ BandIdle

\* c = Class(...); trans_c = c.make_transmission()
MakeComponent(c) ==
    /\ cpc = "components"
    /\ slots[c].stage = "new"
    /\ slots' = [slots EXCEPT ![c] = [stage |-> "native", sp |-> ComponentInput(c)]]
    /\ reordered' = (reordered \/ \E b \in Earlier(c) : slots[b].stage # "interp")
    /\ UNCHANGED <<lib, combVars, umgVars, interpVars, anaVars, bandVars>>

\* trans_c_interp = np.interp(wavelengths, c.wvl_arr, trans_c)
InterpComponent(c) ==
    /\ cpc = "components"
    /\ slots[c].stage = "native"
    /\ slots' = [slots EXCEPT ![c] =
                    [stage |-> "interp", sp |-> slots[c].sp,
                     interp |-> interp_on_grid(slots[c].sp.wvl_arr, slots[c].sp.trans)]]
    /\ UNCHANGED <<lib, reordered, combVars, umgVars, interpVars, anaVars, bandVars>>

\* all five blocks are through: line 70 finds the five named arrays
Join ==
    /\ cpc = "components"
    /\ \A c \in ComponentSet : slots[c].stage = "interp"
    /\ native' = [k \in 1..Len(Components) |-> slots[Components[k]].sp]
    /\ interp' = [k \in 1..Len(Components) |-> slots[Components[k]].interp]
    /\ cpc' = "total"
    /\ UNCHANGED <<trans_total, cerror, stdout, parVars, umgVars, interpVars, anaVars, bandVars>>

NextAnyOrder ==
    \/ \E c \in ComponentSet : MakeComponent(c)
    \/ \E c \in ComponentSet : InterpComponent(c)
    \/ Join
    \/ Total

SpecAnyOrder == InitAnyOrder /\ [][NextAnyOrder]_vars

\* ============================================== the analysis of two result files
\* str.strip() for the blank
RECURSIVE LStrip(_)
LStrip(s) == IF s # <<>> /\ s[1] = " " THEN LStrip(Tail(s)) ELSE s

RECURSIVE RStrip(_)
RStrip(s) ==
    IF s # <<>> /\ s[Len(s)] = " " THEN RStrip(SubSeq(s, 1, Len(s) - 1)) ELSE s

Strip(s) == LStrip(RStrip(s))

\* str.split(',')
RECURSIVE Split(_)
Split(s) ==
    IF \A k \in 1..Len(s) : s[k] # ","
    THEN <<s>>
    ELSE LET k == CHOOSE j \in 1..Len(s) :
                      s[j] = "," /\ \A h \in 1..(j - 1) : s[h] # ","
         IN  <<SubSeq(s, 1, k - 1)>> \o Split(SubSeq(s, k + 1, Len(s)))

RECURSIVE DigitsVal(_)
DigitsVal(ds) ==
    IF ds = <<>> THEN 0
    ELSE DigitsVal(SubSeq(ds, 1, Len(ds) - 1)) * 10 + DigitVal(ds[Len(ds)])

\* float(text) for decimal literals with at most six decimals and for nan:
\* ok is FALSE where float raises ValueError; v is the value in units of 1e-6
ParseFloat(text) ==
    LET s == Strip(text)
        signed == s # <<>> /\ s[1] \in {"-", "+"}
        b == IF signed THEN Tail(s) ELSE s
        dots == {k \in 1..Len(b) : b[k] = "."}
        dot == IF dots = {} THEN Len(b) + 1 ELSE CHOOSE k \in dots : TRUE
        frac == SubSeq(b, dot + 1, Len(b))
        mag == DigitsVal(SubSeq(b, 1, dot - 1)) * Pow10(6)
                   + DigitsVal(frac) * Pow10(6 - Len(frac))
    IN  IF s = NanChars THEN [ok |-> TRUE, nan |-> TRUE, v |-> 0]
        ELSE IF /\ \A k \in 1..Len(b) : IsDigit(b[k]) \/ b[k] = "."
                /\ Cardinality(dots) <= 1
                /\ \E k \in 1..Len(b) : IsDigit(b[k])
        THEN [ok |-> TRUE, nan |-> FALSE,
              v |-> IF signed /\ s[1] = "-" THEN 0 - mag ELSE mag]
        ELSE [ok |-> FALSE, nan |-> FALSE, v |-> 0]

\* the total is read from the third field
ReadLine_third_field(line) ==
    IF Strip(line) # <<>> /\ ~(line # <<>> /\ line[1] = "#")
           /\ (\E k \in 1..Len(line) : line[k] = ",")
    THEN LET parts == Split(Strip(line))
         IN  IF Len(parts) = 7
             THEN LET wvl == ParseFloat(parts[1])
                      total == ParseFloat(parts[3])
                  IN  IF wvl.ok /\ total.ok /\ ~wvl.nan
                             /\ 300 * Pow10(6) <= wvl.v /\ wvl.v <= 1100 * Pow10(6)
                      THEN [ok |-> TRUE,
                            row |-> [wvl |-> wvl.v, total |-> [nan |-> total.nan, v |-> total.v]]]
                      ELSE [ok |-> FALSE]
             ELSE [ok |-> FALSE]
    ELSE [ok |-> FALSE]

\* lines 11-20 (and 26-35): the body of the loop over the lines of a file;
\* a ValueError of float is swallowed by the bare except
ReadLine(line) ==
    IF Strip(line) # <<>> /\ ~(line # <<>> /\ line[1] = "#")
           /\ (\E k \in 1..Len(line) : line[k] = ",")
    THEN LET parts == Split(Strip(line))
         IN  IF Len(parts) = 7
             THEN LET wvl == ParseFloat(parts[1])
                      total == ParseFloat(parts[2])
                  IN  IF wvl.ok /\ total.ok /\ ~wvl.nan
                             /\ 300 * Pow10(6) <= wvl.v /\ wvl.v <= 1100 * Pow10(6)
                      THEN [ok |-> TRUE,
                            row |-> [wvl |-> wvl.v, total |-> [nan |-> total.nan, v |-> total.v]]]
                      ELSE [ok |-> FALSE]
             ELSE [ok |-> FALSE]
    ELSE [ok |-> FALSE]

\* lines 9-20: the accepted rows of a file, in file order
RECURSIVE ReadRows(_, _)
ReadRows(lines, k) ==
    IF k > Len(lines) THEN <<>>
    ELSE LET r == ReadLine(lines[k])
         IN  (IF r.ok THEN <<r.row>> ELSE <<>>) \o ReadRows(lines, k + 1)

\* what one run of the comparison script leaves for five component spectra
ScriptRun(sps) ==
    LET comps == [k \in 1..5 |-> interp_on_grid(sps[k].wvl_arr, sps[k].trans)]
        total == [i \in 1..NPoints |->
                     RatMul(RatMul(RatMul(RatMul(comps[1][i], comps[2][i]),
                                          comps[3][i]), comps[4][i]), comps[5][i])]
    IN  [comps |-> comps, total |-> total]

\* everything the script prints in a run
ScriptOutput(run) ==
    Preamble \o ResultLines(run.total, run.comps) \o SummaryLines(run.total)

\* runs of the script: Rayleigh is one spectrum, the other four components another
PythonRuns ==
    { ScriptRun([k \in 1..5 |-> IF k = 1 THEN a ELSE b]) :
          a, b \in {sp \in ComponentSpectra : Len(sp.wvl_arr) > 0} }

\* lines a MATLAB result file may hold
MatlabLines ==
    { <<"3", "0", "0", ".", "0", ",", " ", "1", ".", "0", "0", "0", "0",
        "0", "0", ",", " ", "1", ",", " ", "1", ",", " ", "1", ",", " ",
        "1", ",", " ", "1">>,
      <<"7", "0", "0", ".", "0", ",", " ", "0", ".", "9", "9", "9", "9",
        "9", "9", ",", " ", "1", ",", " ", "1", ",", " ", "1", ",", " ",
        "1", ",", " ", "1">>,
      <<"3", "0", "0", ".", "0", ",", " ", "0", ".", "9", "9", "9", "9",
        "9", "0", ",", " ", "1", ",", " ", "1", ",", " ", "1", ",", " ",
        "1", ",", " ", "1">>,
      <<"1", "1", "0", "0", ".", "0", ",", "0", ".", "9", "9", "9", "0",
        "0", "0", ",", "1", ",", "1", ",", "1", ",", "1", ",", "1">>,
      <<"5", "0", "0", ".", "5", ",", " ", "0", ".", "2", "5", ",", " ",
        "1", ",", " ", "1", ",", " ", "1", ",", " ", "1", ",", " ", "1">>,
      <<"3", "0", "0", ".", "0", ",", " ", "n", "a", "n", ",", " ", "1",
        ",", " ", "1", ",", " ", "1", ",", " ", "1", ",", " ", "1">>,
      <<"2", "9", "9", ".", "9", ",", " ", "1", ".", "0", "0", "0", "0",
        "0", "0", ",", " ", "1", ",", " ", "1", ",", " ", "1", ",", " ",
        "1", ",", " ", "1">>,
      <<"#", " ", "3", "0", "0", ".", "0", ",", " ", "1", ".", "0", "0",
        "0", "0", "0", "0", ",", " ", "1", ",", " ", "1", ",", " ", "1",
        ",", " ", "1", ",", " ", "1">>,
      <<"3", "0", "0", ".", "0", ",", " ", "1", ".", "0", "0", "0", "0",
        "0", "0", ",", " ", "1">>,
      <<"3", "0", "0", ".", "0", ",", " ", "1", ".", "0", "0", "0", "0",
        "0", "0", ",", " ", "1", ",", " ", "1", ",", " ", "1", ",", " ",
        "1", ",", " ", "1", ",", " ", "1">>,
      <<"3", "0", "0", ".", "0", ",", " ", "1", ".", "0", ".", "0", ",",
        " ", "1", ",", " ", "1", ",", " ", "1", ",", " ", "1", ",", " ",
        "1">>,
      <<" ", " ", " ">>,
      <<"n", "o", " ", "d", "a", "t", "a">> }

\* MATLAB result files: every file of at most two lines, and files of one
\* line repeated NPoints or NPoints + 1 times
MatlabFiles ==
    UNION {[1..n -> MatlabLines] : n \in 0..2}
        \cup {[k \in 1..n |-> line] : n \in {NPoints, NPoints + 1}, line \in MatlabLines}

\* line 69: threshold = 1e-6, in units of 1e-6
threshold == 1
\* line 112: np.max(abs_diff) < 1e-5
ExcellentBelow == 10
\* line 114: np.max(abs_diff) < 1e-3
GoodBelow == 1000
\* line 79: the table shows the first ten rows
TableRows == 10

Abs(v) == IF v < 0 THEN 0 - v ELSE v

\* a total read from a file is held as a double; the difference of two
\* doubles is rounded, so a computed |difference| whose decimal value sits on
\* a tested limit may fall on either side of it: eps is the side (-1 below,
\* 0 exact, 1 above).  Equal totals are equal doubles and differ by exactly 0.
OnLimit(v) == Abs(v) \in {threshold, ExcellentBelow, GoodBelow}

\* python total minus matlab total
Minus_reversed(ml, py) ==
    [nan |-> ml.nan \/ py.nan, v |-> IF ml.nan \/ py.nan THEN 0 ELSE py.v - ml.v]

\* matlab total minus python total without the rounding
Minus(ml, py) == [nan |-> ml.nan \/ py.nan, v |-> IF ml.nan \/ py.nan THEN 0 ELSE ml.v - py.v]

\* python_data[i, 0]: the wavelength printed for row i
ReportedWvl(i) == python_data[i].wvl

\* np.abs
abs_diff(i) ==
    [nan |-> differences[i].nan, v |-> Abs(differences[i].v), eps |-> differences[i].eps]

\* a < b for two computed non-NaN absolute values
FloatLess(a, b) == a.v < b.v \/ (a.v = b.v /\ a.eps < b.eps)

\* a comparison with a NaN operand is False
BelowLimit(a, limit) == ~a.nan /\ FloatLess(a, [v |-> limit, eps |-> 0])

AboveLimit(a, limit) == ~a.nan /\ FloatLess([v |-> limit, eps |-> 0], a)

\* np.argmax(abs_diff): the first NaN if there is one, else the first maximum
ArgMax ==
    LET n == Len(differences)
        nans == {i \in 1..n : differences[i].nan}
        tops == {i \in 1..n : \A j \in 1..n : ~FloatLess(abs_diff(i), abs_diff(j))}
        first(S) == CHOOSE i \in S : \A j \in S : i <= j
    IN  IF nans # {} THEN first(nans) ELSE first(tops)

\* np.max(abs_diff)
MaxAbsDiff == abs_diff(ArgMax)

\* the rows whose difference the table shows, in order
RECURSIVE SigRows(_)
SigRows(k) ==
    IF k > Len(differences) THEN <<>>
    ELSE (IF AboveLimit(abs_diff(k), threshold) THEN <<k>> ELSE <<>>) \o SigRows(k + 1)

\* lines 112-117
Verdict(m) ==
    IF BelowLimit(m, ExcellentBelow) THEN "EXCELLENT"
    ELSE IF BelowLimit(m, GoodBelow) THEN "GOOD"
    ELSE "SIGNIFICANT"

\* the two result files are on disk, the analysis script starts
InitAnalyze ==
    /\ py_file \in {ScriptOutput(run) : run \in PythonRuns}
    /\ ml_file \in MatlabFiles
    /\ apc = "read_python"
    /\ python_data = <<>>
    /\ matlab_data = <<>>
    /\ printed_range = <<>>
    /\ differences = <<>>
    /\ max_diff_idx = 0
    /\ max_diff_wvl = 0
    /\ sig_report = "pending"
    /\ sig_table = <<>>
    /\ conclusion = "none"
    /\ aerror = "none"
    /\ UmgIdle
    /\ InterpIdle
    /\ CombIdle
    /\ ParIdle
    /\ BandIdle

\* lines 7-20
ReadPython ==
    /\ apc = "read_python"
    /\ python_data' = ReadRows(py_file, 1)
    /\ apc' = "read_matlab"
    /\ UNCHANGED <<py_file, ml_file, matlab_data, printed_range, differences, max_diff_idx, max_diff_wvl,
                   sig_report, sig_table, conclusion, aerror, umgVars, interpVars, combVars, parVars, bandVars>>

\* lines 22-35
ReadMatlab ==
    /\ apc = "read_matlab"
    /\ matlab_data' = ReadRows(ml_file, 1)
    /\ apc' = "truncate"
    /\ UNCHANGED <<py_file, ml_file, python_data, printed_range, differences, max_diff_idx, max_diff_wvl,
                   sig_report, sig_table, conclusion, aerror, umgVars, interpVars, combVars, parVars, bandVars>>

Min(a, b) == IF a <= b THEN a ELSE b

\* lines 37-48: both arrays cut to min_len; the wavelength range is printed,
\* python_data[0, 0] of an empty array raises IndexError
Truncate ==
    /\ apc = "truncate"
    /\ LET min_len == Min(Len(python_data), Len(matlab_data))
       IN  /\ python_data' = SubSeq(python_data, 1, min_len)
           /\ matlab_data' = SubSeq(matlab_data, 1, min_len)
           /\ IF min_len = 0
              THEN /\ apc' = "raised"
                   /\ aerror' = "IndexError"
                   /\ UNCHANGED printed_range
              ELSE /\ apc' = "differences"
                   /\ printed_range' = <<python_data[1].wvl, python_data[min_len].wvl>>
                   /\ UNCHANGED aerror
    /\ UNCHANGED <<py_file, ml_file, differences, max_diff_idx, max_diff_wvl, sig_report, sig_table,
                   conclusion, umgVars, interpVars, combVars, parVars, bandVars>>

\* lines 50-66: differences, abs_diff and the place of the largest one
Differences ==
    /\ apc = "differences"
    /\ \E e \in [1..Len(python_data) -> {-1, 0, 1}] :
          LET d == [i \in 1..Len(python_data) |->
                       Minus(matlab_data[i].total, python_data[i].total)]
          IN  /\ \A i \in 1..Len(python_data) :
                     e[i] # 0 => (~d[i].nan /\ OnLimit(d[i].v))
              /\ differences' = [i \in 1..Len(python_data) |->
                                    [nan |-> d[i].nan, v |-> d[i].v, eps |-> e[i]]]
    /\ max_diff_idx' = ArgMax'
    /\ max_diff_wvl' = ReportedWvl(ArgMax')
    /\ apc' = "significant"
    /\ UNCHANGED <<py_file, ml_file, python_data, matlab_data, printed_range, sig_report,
                   sig_table, conclusion, aerror, umgVars, interpVars, combVars, parVars, bandVars>>

\* lines 68-83: the table of the differences above the threshold, or the
\* line saying there is none
Significant ==
    /\ apc = "significant"
    /\ LET rows == SigRows(1)
       IN  IF rows # <<>>
           THEN /\ sig_report' = "table"
                /\ sig_table' = [k \in 1..Min(TableRows, Len(rows)) |->
                                    [wvl |-> ReportedWvl(rows[k]),
                                     py |-> python_data[rows[k]].total,
                                     ml |-> matlab_data[rows[k]].total,
                                     diff |-> differences[rows[k]]]]
           ELSE /\ sig_report' = "identical"
                /\ UNCHANGED sig_table
    /\ apc' = "conclusion"
    /\ UNCHANGED <<py_file, ml_file, python_data, matlab_data, printed_range, differences,
                   max_diff_idx, max_diff_wvl, conclusion, aerror, umgVars, interpVars, combVars, parVars, bandVars>>

\* lines 111-117
Conclusion ==
    /\ apc = "conclusion"
    /\ conclusion' = Verdict(MaxAbsDiff)
    /\ apc' = "done"
    /\ UNCHANGED <<py_file, ml_file, python_data, matlab_data, printed_range, differences,
                   max_diff_idx, max_diff_wvl, sig_report, sig_table, aerror, umgVars, interpVars, combVars,
                   parVars, bandVars>>

NextAnalyze ==
    \/ ReadPython
    \/ ReadMatlab
    \/ Truncate
    \/ Differences
    \/ Significant
    \/ Conclusion

SpecAnalyze == InitAnalyze /\ [][NextAnalyze]_vars

\* ===================================== find_water_absorption_bands
\* line 62: threshold = 0.5, in tenths
BandThreshold == 5
\* line 78: a gap of more than 20 nm
BandGap == 20

\* wavelengths (nm) a spectrum may hold
BandWvls == {300, 310, 320, 341, 360, 385}

\* transmittances in tenths
TransLevels == {1, 3, 5, 9}

\* a gap of 20 nm already splits
IsBreak_from_gap(d) == d >= BandGap

\* diff_wvl > 20
IsBreak(d) == d > BandGap

\* the entries of s at the indices (counted from 1) of idx
Take(s, idx) == [k \in 1..Len(idx) |-> s[idx[k]]]

\* np.min, np.max of a non-empty integer array
SeqMin(s) == CHOOSE v \in {s[k] : k \in 1..Len(s)} : \A k \in 1..Len(s) : v <= s[k]

SeqMax(s) == CHOOSE v \in {s[k] : k \in 1..Len(s)} : \A k \in 1..Len(s) : v >= s[k]

\* np.argmin: the first index (counted from 1) of the least entry
ArgMin(s) == CHOOSE k \in 1..Len(s) : s[k] = SeqMin(s) /\ \A h \in 1..(k - 1) : s[h] # SeqMin(s)

\* the function is called with an increasing wavelength array and a
\* transmission array of the same length
InitBands ==
    /\ band_wavelengths \in
          {SortedSeq(S) : S \in {T \in SUBSET BandWvls : Cardinality(T) <= BandPoints}}
    /\ transmission \in [1..Len(band_wavelengths) -> TransLevels]
    /\ bpc = "start"
    /\ abs_wavelengths = <<>>
    /\ abs_transmissions = <<>>
    /\ band_breaks = <<>>
    /\ band_start = 0
    /\ band_count = 0
    /\ loop_i = 0
    /\ bands = <<>>
    /\ UmgIdle
    /\ InterpIdle
    /\ CombIdle
    /\ AnaIdle
    /\ ParIdle

\* lines 67-74: the mask; no point below the threshold: return
FindStrong ==
    /\ bpc = "start"
    /\ LET strong_abs_mask ==
               SelectSeq([j \in 1..Len(transmission) |-> j],
                         LAMBDA j : transmission[j] < BandThreshold)
       IN  IF Len(strong_abs_mask) = 0
           THEN /\ bpc' = "returned"
                /\ UNCHANGED <<abs_wavelengths, abs_transmissions>>
           ELSE /\ bpc' = "group"
                /\ abs_wavelengths' = Take(band_wavelengths, strong_abs_mask)
                /\ abs_transmissions' = Take(transmission, strong_abs_mask)
    /\ UNCHANGED <<band_wavelengths, transmission, band_breaks, band_start, band_count,
                   loop_i, bands, umgVars, interpVars, combVars, anaVars, parVars>>

\* lines 77-81: band_breaks holds the positions k, counted from 0, with
\* abs_wavelengths[k + 1] - abs_wavelengths[k] > 20
GroupBreaks ==
    /\ bpc = "group"
    /\ band_breaks' = SelectSeq([k \in 1..(Len(abs_wavelengths) - 1) |-> k - 1],
                                LAMBDA k : IsBreak(abs_wavelengths[k + 2] - abs_wavelengths[k + 1]))
    /\ band_start' = 0
    /\ band_count' = 0
    /\ loop_i' = 0
    /\ bpc' = "loop"
    /\ UNCHANGED <<band_wavelengths, transmission, abs_wavelengths, abs_transmissions,
                   bands, umgVars, interpVars, combVars, anaVars, parVars>>

\* lines 83-98: one pass of the loop, i = loop_i
LoopStep ==
    /\ bpc = "loop"
    /\ loop_i < Len(band_breaks) + 1
    /\ LET band_end == IF loop_i < Len(band_breaks)
                       THEN band_breaks[loop_i + 1] + 1
                       ELSE Len(abs_wavelengths)
           wvl_range == SubSeq(abs_wavelengths, band_start + 1, band_end)
           trans_range == SubSeq(abs_transmissions, band_start + 1, band_end)
       IN  /\ IF band_end > band_start
              THEN /\ band_count' = band_count + 1
                   /\ bands' = Append(bands,
                                  [band |-> band_count + 1,
                                   lo |-> SeqMin(wvl_range),
                                   hi |-> SeqMax(wvl_range),
                                   min_trans |-> trans_range[ArgMin(trans_range)],
                                   at |-> wvl_range[ArgMin(trans_range)]])
              ELSE UNCHANGED <<band_count, bands>>
           /\ band_start' = band_end
    /\ loop_i' = loop_i + 1
    /\ UNCHANGED <<band_wavelengths, transmission, bpc, abs_wavelengths, abs_transmissions,
                   band_breaks, umgVars, interpVars, combVars, anaVars, parVars>>

\* the range of the for loop is used up
LoopExit ==
    /\ bpc = "loop"
    /\ loop_i = Len(band_breaks) + 1
    /\ bpc' = "returned"
    /\ UNCHANGED <<band_wavelengths, transmission, abs_wavelengths, abs_transmissions,
                   band_breaks, band_start, band_count, loop_i, bands,
                   umgVars, interpVars, combVars, anaVars, parVars>>

NextBands ==
    \/ FindStrong
    \/ GroupBreaks
    \/ LoopStep
    \/ LoopExit

SpecBands == InitBands /\ [][NextBands]_vars

\* ===================================================== optical depth claims
KnownTargets == SpeciesSet \cup {"ALL"}

RECURSIVE SumOfSingles(_, _)
SumOfSingles(k, w) ==
    IF k = 0 THEN 0
    ELSE SumOfSingles(k - 1, w) + optical_depth(Species[k], TRUE)[w]

RECURSIVE SumOfCalls(_, _)
SumOfCalls(i, w) ==
    IF i = 0 THEN 0 ELSE SumOfCalls(i - 1, w) + calls[i].term[w]

\* C1: with the trace-gas flag set and a valid pressure, the optical depth
\* returned for 'ALL' is, at every wavelength, the sum of the eight optical
\* depths returned for the single species, each term added inside the ALL run
\* is the optical depth of that species alone, and a single-species run
\* returns the optical depth of its species.
C1_AdditiveDecomposition ==
    (pc = "returned" /\ with_trace_gases /\ pp0 > 0) =>
        /\ ~taug_nan
        /\ target_gas = "ALL" =>
            /\ \A w \in 1..NWvl : taug_l[w] = SumOfSingles(Len(Species), w)
            /\ Len(calls) = Len(Species)
            /\ \A i \in 1..Len(calls) :
                  calls[i].term = optical_depth(calls[i].species, TRUE)
        /\ target_gas \in SpeciesSet =>
            /\ taug_l = optical_depth(target_gas, TRUE)
            /\ Len(calls) = 1
            /\ calls[1].species = target_gas

C1_Witness ==
    /\ pc = "returned"
    /\ with_trace_gases
    /\ pp0 > 0
    /\ target_gas = "ALL"
    /\ Len(calls) = Len(Species)
    /\ \E w \in 1..NWvl : taug_l[w] > 0
    /\ \E i \in 1..Len(calls) : \E w \in 1..NWvl : calls[i].term[w] > 0 /\ calls[i].term[w] < taug_l[w]

\* C2: an NH3 term is added only with with_trace_gases set; with the flag
\* clear 'ALL' adds exactly O2, CH4, CO, N2O, CO2, N2, O4 and no target adds
\* NH3; the returned optical depth is the flag-clear optical depth of the same
\* target plus, with the flag set and NH3 selected, the NH3 term.
C2_TraceGasGating ==
    /\ (\E i \in 1..Len(calls) : calls[i].species = "NH3" \/ calls[i].abs = "nh3")
          => with_trace_gases
    /\ (pc = "returned" /\ ~with_trace_gases /\ target_gas = "ALL") =>
          /\ Len(calls) = 7
          /\ \A i \in 1..7 : calls[i].species = Species[i]
    /\ pc = "returned" =>
          taug_l = AddArr(optical_depth(target_gas, FALSE),
                          IF with_trace_gases /\ Selected("NH3", target_gas)
                          THEN Term("NH3") ELSE Zeros)

C2_Witness ==
    /\ pc = "returned"
    /\ ~with_trace_gases
    /\ target_gas = "ALL"
    /\ Len(calls) = 7
    /\ "nh3" \in DOMAIN abs_attrs
    /\ pp0 > 0
    /\ \E w \in 1..NWvl : abs_attrs["nh3"][w] > 0

\* C3 as claimed: in every term added the airmass is asked for the constituent
\* whose coefficient table the term uses (stated for the valid pressures).
C3_AirmassOfTableConstituent ==
    pp0 > 0 => \A i \in 1..Len(calls) : calls[i].am = calls[i].abs

\* C3 as amended: every term added is coefficient * abundance * airmass of its
\* species, the airmass asked for the constituent of the coefficient table,
\* except the O4 term, whose airmass is asked for 'o2'; the optical depth is
\* the sum of the terms added.
C3_DispatchExceptO4 ==
    /\ \A i \in 1..Len(calls) :
          /\ calls[i].am = (IF calls[i].species = "O4" THEN "o2" ELSE calls[i].abs)
          /\ calls[i].abs \in DOMAIN abs_attrs
          /\ \A w \in 1..NWvl :
                calls[i].term[w] =
                    abs_attrs[calls[i].abs][w]
                    * Abundance(calls[i].species, pp0, tair, co2_ppm)
                    * Airmass_from_SMARTS(sza, calls[i].am)
    /\ pc = "returned" =>
          \A w \in 1..NWvl : taug_l[w] = SumOfCalls(Len(calls), w)

C3_Witness ==
    /\ pc = "returned"
    /\ target_gas = "ALL"
    /\ sza = 1
    /\ pp0 > 0
    /\ \E i \in 1..Len(calls) :
          /\ calls[i].species = "O4"
          /\ calls[i].abs = "o4"
          /\ calls[i].am = "o2"
          /\ \E w \in 1..NWvl : calls[i].term[w] > 0

\* C4 as claimed: a target_gas that is neither 'ALL' nor a species name never
\* gets an optical depth returned (stated for the valid pressures).
C4_UnknownSpeciesRejected ==
    (pp0 > 0 /\ target_gas \notin KnownTargets) => pc # "returned"

\* C5: a selected species whose coefficient table is missing ends the
\* computation with AttributeError: no optical depth is returned, and no term
\* is ever added for a constituent without a table.
C5_MissingTablePropagates ==
    /\ pc = "returned" =>
          \A s \in SpeciesSet :
              Guard(s, target_gas, with_trace_gases) => AbsId(s) \in DOMAIN abs_attrs
    /\ \A i \in 1..Len(calls) : calls[i].abs \in DOMAIN abs_attrs
    /\ pc = "raised" =>
          /\ error = "AttributeError"
          /\ \E s \in SpeciesSet :
                /\ Guard(s, target_gas, with_trace_gases)
                /\ AbsId(s) \notin DOMAIN abs_attrs

C5_Witness ==
    /\ pc = "raised"
    /\ error = "AttributeError"
    /\ target_gas = "ALL"
    /\ "co2" \notin DOMAIN abs_attrs
    /\ Len(calls) = 4

\* C11: with non-negative coefficient tables, pressure ratio > 0 and airmass
\* >= 1 the optical depth is >= 0 at every wavelength after every block, for
\* every target and either flag; the transmittance made of it is in (0,1] at
\* every wavelength; when no term was added the optical depth is 0 and the
\* transmittance exactly 1 everywhere.
C11_NonNegativeDepthUnitTransmittance ==
    (/\ pp0 > 0
     /\ pc \notin {"enter", "idle"}
     /\ \A c \in DOMAIN abs_attrs : \A w \in 1..NWvl : abs_attrs[c][w] >= 0
     /\ \A c \in Constituents : getam(c) >= 10) =>
        /\ ~taug_nan
        /\ \A w \in 1..NWvl : taug_l[w] >= 0
        /\ \A i \in 1..Len(calls) : \A w \in 1..NWvl : calls[i].term[w] >= 0
        /\ pc = "transmitted" =>
              \A w \in 1..NWvl : trans[w] \in {"one", "below_one"}
        /\ (pc \in {"return", "returned", "transmitted"} /\ Len(calls) = 0) =>
              \A w \in 1..NWvl : taug_l[w] = 0
        /\ (pc = "transmitted" /\ Len(calls) = 0) =>
              \A w \in 1..NWvl : trans[w] = "one"

C11_Witness ==
    /\ pc = "transmitted"
    /\ pp0 > 0
    /\ target_gas = "ALL"
    /\ Len(calls) = Len(Species)
    /\ \E w \in 1..NWvl : taug_l[w] > 0 /\ trans[w] = "below_one"

C11_WitnessNoTerm ==
    /\ pc = "transmitted"
    /\ pp0 > 0
    /\ Len(calls) = 0
    /\ \A w \in 1..NWvl : trans[w] = "one"

\* the term of species s as the block computes it in this state, with the
\* temperature t and the CO2 ratio c in place of the state's
TermAt(s, t, c) ==
    [w \in 1..NWvl |-> getabs(AbsId(s)).val[w] * Abundance(s, pp0, t, c) * getam(AmId(s))]

\* C14: of the eight species terms only the O4 term depends on the air
\* temperature and only the CO2 term on co2_ppm: the optical depth a
\* single-species run returns is the one it returns at any other temperature
\* unless the species is O4, and at any other co2_ppm unless it is CO2; a
\* non-zero O4 depth changes with the temperature, a non-zero CO2 depth with
\* co2_ppm.
C14_OnlyO4ReadsTairOnlyCO2ReadsCo2 ==
    (pc = "returned" /\ target_gas \in SpeciesSet /\ Len(calls) = 1 /\ ~taug_nan) =>
        /\ taug_l = TermAt(target_gas, tair, co2_ppm)
        /\ \A t \in TairLevels :
              /\ target_gas # "O4" => taug_l = TermAt(target_gas, t, co2_ppm)
              /\ (target_gas = "O4" /\ t # tair) =>
                    \A w \in 1..NWvl :
                        taug_l[w] # 0 => taug_l[w] # TermAt(target_gas, t, co2_ppm)[w]
        /\ \A c \in Co2Levels :
              /\ target_gas # "CO2" => taug_l = TermAt(target_gas, tair, c)
              /\ (target_gas = "CO2" /\ c # co2_ppm) =>
                    \A w \in 1..NWvl :
                        taug_l[w] # 0 => taug_l[w] # TermAt(target_gas, tair, c)[w]

\* a single-species run other than O4 and CO2 returned a non-zero depth at
\* the warmer temperature and the higher CO2 ratio
C14_Witness ==
    /\ pc = "returned"
    /\ target_gas = "CH4"
    /\ Len(calls) = 1
    /\ tair = 15
    /\ co2_ppm = 415
    /\ \E w \in 1..NWvl : taug_l[w] > 0

\* C10 as claimed: a state with pressure <= 0 never gets an optical depth
\* returned.
C10_InvalidStateRejected ==
    pp0 <= 0 => pc # "returned"

\* ======================================================= result file claims
CommaCount(s) == Cardinality({k \in 1..Len(s) : s[k] = ","})

\* the position of the k-th comma of s; 0 before the first field, Len(s) + 1
\* after the last
CommaAt(s, k) ==
    IF k = 0 THEN 0
    ELSE IF k > CommaCount(s) THEN Len(s) + 1
    ELSE CHOOSE j \in 1..Len(s) :
             s[j] = "," /\ Cardinality({h \in 1..j : s[h] = ","}) = k

\* the k-th comma-separated field of s
Field(s, k) == SubSeq(s, CommaAt(s, k - 1) + 1, CommaAt(s, k) - 1)

\* the acceptance rule of the reader, stated on the characters of the line
Accepts(line) ==
    /\ \E k \in 1..Len(line) : line[k] # " "
    /\ line[1] # "#"
    /\ CommaCount(line) = 6
    /\ ParseFloat(Field(Strip(line), 1)).ok
    /\ ParseFloat(Field(Strip(line), 2)).ok
    /\ ~ParseFloat(Field(Strip(line), 1)).nan
    /\ ParseFloat(Field(Strip(line), 1)).v >= 300 * Pow10(6)
    /\ ParseFloat(Field(Strip(line), 1)).v <= 1100 * Pow10(6)

\* the pair the reader must return for grid point i of a run
ExpectedRow(run, i) ==
    [wvl |-> RoundRat(WavelengthNm(i), 1) * Pow10(5),
     total |-> [nan |-> FALSE, v |-> RoundRat(run.total[i], 6)]]

\* the index of the row of grid point i in the output of the script
RowIndex(i) == Len(Preamble) + 2 + i

\* C12: the script prints one row per grid point, seven comma-separated
\* columns in the order wavelength, total, Rayleigh, ozone, water, aerosol,
\* UMG; the reader accepts a line iff it is non-blank, does not start with
\* '#', has exactly seven comma-separated fields of which the first two are
\* numbers, and its wavelength is in [300, 1100]; so the rows of the script
\* are read back in order as (wavelength, total) to the printed precision,
\* and the header and every comma-free line are skipped.
C12_ResultFileRoundTrip ==
    /\ apc = "read_matlab" =>
          \A run \in PythonRuns : py_file = ScriptOutput(run) =>
              /\ \A i \in 1..NPoints :
                    LET line == py_file[RowIndex(i)]
                    IN  /\ CommaCount(line) = 6
                        /\ ParseFloat(Field(line, 1)).v = RoundRat(WavelengthNm(i), 1) * Pow10(5)
                        /\ ParseFloat(Field(line, 2)).v = RoundRat(run.total[i], 6)
                        /\ \A k \in 1..5 :
                               ParseFloat(Field(line, k + 2)).v = RoundRat(run.comps[k][i], 6)
              /\ \A j \in 1..Len(py_file) :
                    (\A i \in 1..NPoints : j # RowIndex(i)) =>
                        /\ py_file[j] = <<>> \/ py_file[j][1] = "#" \/ CommaCount(py_file[j]) = 0
                        /\ ~ReadLine(py_file[j]).ok
              /\ python_data = [i \in 1..NPoints |-> ExpectedRow(run, i)]
    /\ apc = "truncate" =>
          /\ \A j \in 1..Len(ml_file) : ReadLine(ml_file[j]).ok <=> Accepts(ml_file[j])
          /\ \A j \in 1..Len(py_file) : ReadLine(py_file[j]).ok <=> Accepts(py_file[j])
          /\ Len(matlab_data) = Cardinality({j \in 1..Len(ml_file) : Accepts(ml_file[j])})
          /\ \A k \in 1..Len(matlab_data) :
                \E j \in 1..Len(ml_file) :
                    /\ Accepts(ml_file[j])
                    /\ Cardinality({h \in 1..j : Accepts(ml_file[h])}) = k
                    /\ matlab_data[k].wvl = ParseFloat(Field(Strip(ml_file[j]), 1)).v
                    /\ matlab_data[k].total.v = ParseFloat(Field(Strip(ml_file[j]), 2)).v
                    /\ matlab_data[k].total.nan = ParseFloat(Field(Strip(ml_file[j]), 2)).nan

\* both files are read: the script's rows came back with a total that is
\* neither 0 nor 1, and of two MATLAB lines with commas one was rejected
C12_Witness ==
    /\ apc = "truncate"
    /\ Len(python_data) = NPoints
    /\ \A i \in 1..NPoints : python_data[i].total.v \notin {0, Pow10(6)}
    /\ Len(ml_file) = 2
    /\ \A j \in 1..2 : CommaCount(ml_file[j]) > 0
    /\ Len(matlab_data) = 1

\* C13: each of the five components is computed from its own object alone and
\* no block changes what another block produced, so in whatever order and
\* interleaving the blocks run the five spectra and the total are those of
\* the script's order; the total exists only once all five interpolated
\* spectra do.
C13_ComponentsIndependentJoinBeforeTotal ==
    /\ \A c \in ComponentSet :
          /\ slots[c].stage # "new" => slots[c].sp = lib[c]
          /\ slots[c].stage = "interp" =>
                slots[c].interp = interp_on_grid(lib[c].wvl_arr, lib[c].trans)
    /\ cpc \in {"total", "done"} =>
          /\ \A c \in ComponentSet : slots[c].stage = "interp"
          /\ interp = ScriptRun([k \in 1..5 |-> lib[Components[k]]]).comps
    /\ trans_total # <<>> =>
          /\ cpc = "done"
          /\ \A c \in ComponentSet : slots[c].stage = "interp"
          /\ trans_total = ScriptRun([k \in 1..5 |-> lib[Components[k]]]).total
    /\ cpc = "done" => trans_total # <<>>

\* the total is there after the blocks ran out of the script's order, on
\* five components that are not all the same spectrum
C13_Witness ==
    /\ cpc = "done"
    /\ reordered
    /\ lib["ray"] # lib["oz"]
    /\ lib["oz"] # lib["umg"]
    /\ \E i \in 1..NPoints : 0 < trans_total[i].n /\ trans_total[i].n < trans_total[i].d

\* ========================================================= analysis claims
\* m >= limit for a computed value m (False for NaN)
AtLeast(m, limit) == ~m.nan /\ ~FloatLess(m, [v |-> limit, eps |-> 0])

\* C15 as claimed: whatever the two data sets, exactly one conclusion is
\* printed; it is EXCELLENT iff the largest absolute difference is < 1e-5,
\* GOOD iff it is >= 1e-5 and < 1e-3, SIGNIFICANT iff it is >= 1e-3; and when
\* the report says that no wavelength differs by more than 1e-6 the
\* conclusion is EXCELLENT.
C15_VerdictClassification ==
    /\ apc # "raised"
    /\ apc = "done" =>
          /\ conclusion \in {"EXCELLENT", "GOOD", "SIGNIFICANT"}
          /\ conclusion = "EXCELLENT" <=> BelowLimit(MaxAbsDiff, ExcellentBelow)
          /\ conclusion = "GOOD" <=>
                (AtLeast(MaxAbsDiff, ExcellentBelow) /\ BelowLimit(MaxAbsDiff, GoodBelow))
          /\ conclusion = "SIGNIFICANT" <=> AtLeast(MaxAbsDiff, GoodBelow)
          /\ sig_report = "identical" => conclusion = "EXCELLENT"

\* C16: both sequences of accepted rows are cut to the length of the shorter
\* one; difference i is the MATLAB total of row i minus the Python total of
\* row i, whatever the wavelengths of the two rows; the rows of the longer
\* sequence past that length play no part; every wavelength the report
\* prints is one of the Python sequence.
C16_RowsPairedByPosition ==
    LET P == ReadRows(py_file, 1)
        M == ReadRows(ml_file, 1)
        n == IF Len(P) <= Len(M) THEN Len(P) ELSE Len(M)
    IN  /\ apc \in {"raised", "differences", "significant", "conclusion", "done"} =>
              /\ python_data = [i \in 1..n |-> P[i]]
              /\ matlab_data = [i \in 1..n |-> M[i]]
              /\ apc = "raised" <=> n = 0
        /\ apc \in {"differences", "significant", "conclusion", "done"} =>
              printed_range = <<P[1].wvl, P[n].wvl>>
        /\ apc \in {"significant", "conclusion", "done"} =>
              /\ Len(differences) = n
              /\ \A i \in 1..n :
                    /\ differences[i].nan <=> (M[i].total.nan \/ P[i].total.nan)
                    /\ ~differences[i].nan => differences[i].v = M[i].total.v - P[i].total.v
              /\ max_diff_idx \in 1..n
              /\ max_diff_wvl = P[max_diff_idx].wvl
        /\ apc \in {"conclusion", "done"} =>
              \A k \in 1..Len(sig_table) :
                  \E i \in 1..n :
                      /\ sig_table[k].wvl = P[i].wvl
                      /\ sig_table[k].py = P[i].total
                      /\ sig_table[k].ml = M[i].total
                      /\ sig_table[k].diff = differences[i]

\* the MATLAB file has more accepted rows than the Python file and other
\* wavelengths; the analysis ran to its end on rows that differ
C16_Witness ==
    /\ apc = "done"
    /\ Len(ReadRows(ml_file, 1)) > Len(python_data)
    /\ \E i \in 1..Len(python_data) :
          /\ matlab_data[i].wvl # python_data[i].wvl
          /\ ~differences[i].nan
          /\ differences[i].v # 0
    /\ sig_report = "table"
    /\ max_diff_wvl # matlab_data[max_diff_idx].wvl

\* ============================================================ band claims
\* the points below the threshold, as indices of the input, in order
Below == SelectSeq([j \in 1..Len(transmission) |-> j],
                   LAMBDA j : transmission[j] < BandThreshold)

\* the places where two neighbouring points below the threshold are more
\* than 20 nm apart: k is the place between the k-th and the next
Gaps ==
    {k \in 1..(Len(Below) - 1) :
        band_wavelengths[Below[k + 1]] - band_wavelengths[Below[k]] > 20}

\* the points below the threshold that band r covers
Members(r) ==
    {k \in 1..Len(Below) :
        bands[r].lo <= band_wavelengths[Below[k]] /\ band_wavelengths[Below[k]] <= bands[r].hi}

\* C17: with no point below the threshold no band is reported; otherwise the
\* bands cut the points below the threshold, in order, into non-empty runs,
\* exactly at the places where two neighbouring ones are more than 20 nm
\* apart: every such point is in exactly one band, there is one band more
\* than there are such places, a band's range is its first and last
\* wavelength and its depth the least transmission in it; the loop makes one
\* pass per band and ends.
C17_BandsPartitionBelowThreshold ==
    /\ Len(Below) = 0 => bands = <<>>
    /\ bpc = "loop" =>
          /\ loop_i <= Len(band_breaks) + 1
          /\ Len(band_breaks) + 1 <= Len(Below)
          /\ band_count = loop_i
          /\ Len(bands) = loop_i
          /\ ENABLED (LoopStep \/ LoopExit)
    /\ bpc \in {"start", "group"} => ENABLED NextBands
    /\ (bpc = "returned" /\ Len(Below) > 0) =>
          /\ Len(bands) = Cardinality(Gaps) + 1
          /\ \A k \in 1..Len(Below) : Cardinality({r \in 1..Len(bands) : k \in Members(r)}) = 1
          /\ \A r \in 1..Len(bands) :
                /\ bands[r].band = r
                /\ Members(r) # {}
                /\ \E a, b \in Members(r) :
                      /\ Members(r) = a..b
                      /\ bands[r].lo = band_wavelengths[Below[a]]
                      /\ bands[r].hi = band_wavelengths[Below[b]]
                      /\ Gaps \cap (a..(b - 1)) = {}
                      /\ a > 1 => (a - 1) \in Gaps
                      /\ b < Len(Below) => b \in Gaps
                /\ \A k \in Members(r) : bands[r].min_trans <= transmission[Below[k]]
                /\ \E k \in Members(r) :
                      /\ bands[r].min_trans = transmission[Below[k]]
                      /\ bands[r].at = band_wavelengths[Below[k]]
                /\ r < Len(bands) => bands[r].hi < bands[r + 1].lo

\* the search returned two bands: points exactly 20 nm apart stayed in one
\* band, a point above the threshold lies between them, and the second band
\* starts more than 20 nm later
C17_Witness ==
    /\ bpc = "returned"
    /\ Len(bands) = 2
    /\ Len(Below) < Len(transmission)
    /\ \E k \in 1..(Len(Below) - 1) :
          band_wavelengths[Below[k + 1]] - band_wavelengths[Below[k]] = 20
    /\ bands[1].lo < bands[1].hi
    /\ bands[1].min_trans < bands[2].min_trans

\* ========================================================= combiner claims
\* C6: the total is, at every grid point, the product of the five
\* interpolated components; with every component value in [0,1] the total is
\* in [0,1] and not above any component value at that point.
C6_TotalIsProductBelowComponents ==
    (cpc = "done"
       /\ \A k \in 1..5 : \A i \in 1..NPoints :
             0 <= interp[k][i].n /\ interp[k][i].n <= interp[k][i].d) =>
        \A i \in 1..NPoints :
            /\ trans_total[i].d > 0
            /\ trans_total[i].n = interp[1][i].n * interp[2][i].n * interp[3][i].n
                                      * interp[4][i].n * interp[5][i].n
            /\ trans_total[i].d = interp[1][i].d * interp[2][i].d * interp[3][i].d
                                      * interp[4][i].d * interp[5][i].d
            /\ 0 <= trans_total[i].n
            /\ trans_total[i].n <= trans_total[i].d
            /\ \A k \in 1..5 :
                   QuotLe(trans_total[i].n, trans_total[i].d, interp[k][i].n, interp[k][i].d)

C6_Witness ==
    /\ cpc = "done"
    /\ \E i \in 1..NPoints :
          /\ 0 < trans_total[i].n
          /\ trans_total[i].n < trans_total[i].d
          /\ \E k \in 1..5 : ~RatLe(interp[k][i], trans_total[i])
          /\ interp[5][i].n < interp[5][i].d
    /\ \E i \in 1..NPoints : trans_total[i].n = 0

\* C7: a target wavelength left of the native range gets the first native
\* value, one right of it the last native value; between two neighbouring
\* native points the value lies on the straight line through them; every
\* interpolated value is between the least and the greatest native value.
C7_EdgeClampAndLinear ==
    ipc = "done" =>
        \A i \in 1..NPoints :
            LET x == wavelengths[i]
                n == Len(xp)
                r == res[i]
            IN  /\ r.d > 0
                /\ x < xp[1] => RatEq(r, Rat(fp[1], Scale))
                /\ x > xp[n] => RatEq(r, Rat(fp[n], Scale))
                /\ \A j \in 1..(n - 1) :
                      (xp[j] <= x /\ x <= xp[j + 1]) =>
                          (r.n * Scale - fp[j] * r.d) * (xp[j + 1] - xp[j])
                              = (fp[j + 1] - fp[j]) * (x - xp[j]) * r.d
                /\ \E j \in 1..n : RatLe(Rat(fp[j], Scale), r)
                /\ \E j \in 1..n : RatLe(r, Rat(fp[j], Scale))

C7_Witness ==
    /\ ipc = "done"
    /\ Len(xp) >= 2
    /\ fp[1] # fp[2]
    /\ \E i \in 1..NPoints : wavelengths[i] < xp[1]
    /\ \E i \in 1..NPoints : \E j \in 1..(Len(xp) - 1) :
          /\ xp[j] < wavelengths[i]
          /\ wavelengths[i] < xp[j + 1]
          /\ fp[j] # fp[j + 1]
          /\ Rat(fp[j], Scale) # res[i]

\* C8: a component whose native grid is the target grid is returned unchanged
\* at every grid point.
C8_IdentityOnTargetGrid ==
    (ipc = "done" /\ xp = wavelengths) =>
        \A i \in 1..NPoints : res[i] = Rat(fp[i], Scale)

C8_Witness ==
    /\ ipc = "done"
    /\ xp = wavelengths
    /\ fp[1] # fp[2]
    /\ res[1] = Rat(fp[1], Scale)

\* C9 as claimed: when a component spectrum has fewer than 2 points, no total
\* spectrum is produced.
C9_MalformedGridRejected ==
    (\E k \in 1..Len(native) : Len(native[k].wvl_arr) < 2) => cpc # "done"

====
